---- MODULE Spec2Model ----
\* Model of the transaction processor of toy_transaction_engine
\* (src/src/transaction_engine.rs): the account table, the two transaction
\* indices and the five operations of TransactionProcessor, main's loop
\* around them (src/src/main.rs) and the conversions of FractionalAmount.
EXTENDS Integers, FiniteSets, Sequences, TLC

\* ---------------------------------------------------------------- bounds
MaxClient == 2
MaxTx == 2
MaxAmount == 1
MaxOps == 3
MaxRecords == 2
MaxIntLen == 2
MaxFracLen == 5
AmountBits == 15

\* ClientId(u16), TransactionId(u32), FractionalAmount(i64), restricted to
\* the bounded ranges above. Amounts include one negative value, which the
\* processor must reject.
ClientIds == 1..MaxClient
TransactionIds == 1..MaxTx
Amounts == (-1)..MaxAmount

\* ---------------------------------------------------------------- state
VARIABLES
  accounts,              \* HashMap<ClientId, Account>
  deposit_transactions,  \* HashMap<(ClientId, TransactionId), FractionalAmount>
  dispute_transactions,  \* HashMap<(ClientId, TransactionId), FractionalAmount>
  last,                  \* the step made last: operation, arguments, result
  pre,                   \* the processor's fields when that step was made
  nops,                  \* number of calls made so far
  phase,                 \* main: "running", "done" (Ok) or "aborted" (Err)
  output,                \* the records serialized to stdout, in order
  hist,                  \* what the calls so far were (ledger of deposits)
  clean,                 \* a processor fed only the calls that returned Ok
  conv                   \* an amount under conversion: text, value, result

vars == <<accounts, deposit_transactions, dispute_transactions, last, pre,
          nops, phase, output, hist, clean, conv>>

\* The processor's three fields as one value.
Processor ==
  [accounts |-> accounts,
   deposit_transactions |-> deposit_transactions,
   dispute_transactions |-> dispute_transactions]

\* #[derive(Default)] for Account: zero balances, not frozen.
AccountDefault ==
  [available_amount |-> 0, held_amount |-> 0, frozen |-> FALSE]

\* The empty HashMap.
EmptyMap == [k \in {} |-> 0]

\* HashMap::insert: the value under k is replaced or added.
insert(m, k, v) ==
  [x \in (DOMAIN m) \cup {k} |-> IF x = k THEN v ELSE m[x]]

\* HashMap::remove: the map without k.
remove(m, k) ==
  [x \in (DOMAIN m) \ {k} |-> m[x]]

\* HashMap::entry(k).or_insert_with(Default::default): the map with a
\* default account under k when k was absent.
or_insert_with(m, k) ==
  IF k \in DOMAIN m THEN m ELSE insert(m, k, AccountDefault)

\* TransactionProcessor::new
new ==
  [accounts |-> EmptyMap,
   deposit_transactions |-> EmptyMap,
   dispute_transactions |-> EmptyMap]

\* ---------------------------------------------------------------- operations
\* Each operation maps the processor's fields and the arguments to the
\* fields after the call and the call's result ("Ok" or the error variant).

\* Mutant of deposit: the deposit is not recorded in deposit_transactions.
deposit_not_recorded(tp, client_id, transaction_id, amount) ==
  IF amount < 0
  THEN [tp |-> tp, result |-> "CannotDepositANegativeAmount"]
  ELSE LET accs == or_insert_with(tp.accounts, client_id)
           account == accs[client_id]
       IN [tp |-> [tp EXCEPT
                     !.accounts = insert(accs, client_id,
                        [account EXCEPT !.available_amount = @ + amount])],
           result |-> "Ok"]

\* Mutant of deposit: the account is looked up (and created) before the
\* sign of the amount is checked.
deposit_checks_late(tp, client_id, transaction_id, amount) ==
  LET accs == or_insert_with(tp.accounts, client_id)
      account == accs[client_id]
  IN IF amount < 0
     THEN [tp |-> [tp EXCEPT !.accounts = accs],
           result |-> "CannotDepositANegativeAmount"]
     ELSE [tp |-> [tp EXCEPT
                     !.accounts = insert(accs, client_id,
                        [account EXCEPT !.available_amount = @ + amount]),
                     !.deposit_transactions =
                        insert(@, <<client_id, transaction_id>>, amount)],
           result |-> "Ok"]

\* Mutant of deposit: a deposit of 0 is recorded without creating the
\* client's account.
deposit_lazy_account(tp, client_id, transaction_id, amount) ==
  IF amount < 0
  THEN [tp |-> tp, result |-> "CannotDepositANegativeAmount"]
  ELSE LET accs == IF amount = 0 THEN tp.accounts
                   ELSE or_insert_with(tp.accounts, client_id)
       IN [tp |-> [tp EXCEPT
                     !.accounts =
                        IF client_id \in DOMAIN accs
                        THEN insert(accs, client_id,
                               [accs[client_id] EXCEPT
                                  !.available_amount = @ + amount])
                        ELSE accs,
                     !.deposit_transactions =
                        insert(@, <<client_id, transaction_id>>, amount)],
           result |-> "Ok"]

\* TransactionProcessor::deposit
deposit(tp, client_id, transaction_id, amount) ==
  IF amount < 0
  THEN [tp |-> tp, result |-> "CannotDepositANegativeAmount"]
  ELSE LET accs == or_insert_with(tp.accounts, client_id)
           account == accs[client_id]
       IN [tp |-> [tp EXCEPT
                     !.accounts = insert(accs, client_id,
                        [account EXCEPT !.available_amount = @ + amount]),
                     !.deposit_transactions =
                        insert(@, <<client_id, transaction_id>>, amount)],
           result |-> "Ok"]

\* Mutant of withdraw: the withdrawal is recorded like a deposit, under its
\* transaction id, so that it could be disputed.
withdraw_recorded(tp, client_id, transaction_id, amount) ==
  IF amount < 0
  THEN [tp |-> tp, result |-> "CannotWithdrawANegativeAmount"]
  ELSE LET accs == or_insert_with(tp.accounts, client_id)
           account == accs[client_id]
       IN IF account.available_amount < amount
          THEN [tp |-> [tp EXCEPT !.accounts = accs],
                result |-> "InsufficientAmountAvailableForWithdrawal"]
          ELSE [tp |-> [tp EXCEPT
                          !.accounts = insert(accs, client_id,
                             [account EXCEPT !.available_amount = @ - amount]),
                          !.deposit_transactions =
                             insert(@, <<client_id, transaction_id>>, amount)],
                result |-> "Ok"]

\* Mutant of withdraw: the balance is not compared with the amount.
withdraw_unchecked(tp, client_id, transaction_id, amount) ==
  IF amount < 0
  THEN [tp |-> tp, result |-> "CannotWithdrawANegativeAmount"]
  ELSE LET accs == or_insert_with(tp.accounts, client_id)
           account == accs[client_id]
       IN [tp |-> [tp EXCEPT
                     !.accounts = insert(accs, client_id,
                        [account EXCEPT !.available_amount = @ - amount])],
           result |-> "Ok"]

\* Mutant of withdraw: a client without an account is reported as unknown
\* after the entry was created for it.
withdraw_unknown_client(tp, client_id, transaction_id, amount) ==
  IF amount < 0
  THEN [tp |-> tp, result |-> "CannotWithdrawANegativeAmount"]
  ELSE LET accs == or_insert_with(tp.accounts, client_id)
           account == accs[client_id]
       IN IF client_id \notin DOMAIN tp.accounts
          THEN [tp |-> [tp EXCEPT !.accounts = accs],
                result |-> "UnknownClient"]
          ELSE IF account.available_amount < amount
          THEN [tp |-> [tp EXCEPT !.accounts = accs],
                result |-> "InsufficientAmountAvailableForWithdrawal"]
          ELSE [tp |-> [tp EXCEPT
                          !.accounts = insert(accs, client_id,
                             [account EXCEPT !.available_amount = @ - amount])],
                result |-> "Ok"]

\* Mutant of withdraw: an accepted withdrawal is not taken from available.
withdraw_not_debited(tp, client_id, transaction_id, amount) ==
  IF amount < 0
  THEN [tp |-> tp, result |-> "CannotWithdrawANegativeAmount"]
  ELSE LET accs == or_insert_with(tp.accounts, client_id)
           account == accs[client_id]
       IN IF account.available_amount < amount
          THEN [tp |-> [tp EXCEPT !.accounts = accs],
                result |-> "InsufficientAmountAvailableForWithdrawal"]
          ELSE [tp |-> [tp EXCEPT !.accounts = accs], result |-> "Ok"]

\* TransactionProcessor::withdraw. The account entry is created before the
\* balance is compared, so it stays in the table when the call fails.
withdraw(tp, client_id, transaction_id, amount) ==
  IF amount < 0
  THEN [tp |-> tp, result |-> "CannotWithdrawANegativeAmount"]
  ELSE LET accs == or_insert_with(tp.accounts, client_id)
           account == accs[client_id]
       IN IF account.available_amount < amount
          THEN [tp |-> [tp EXCEPT !.accounts = accs],
                result |-> "InsufficientAmountAvailableForWithdrawal"]
          ELSE [tp |-> [tp EXCEPT
                          !.accounts = insert(accs, client_id,
                             [account EXCEPT !.available_amount = @ - amount])],
                result |-> "Ok"]

\* Mutant of dispute: the disputed amount leaves available but is not added
\* to held.
dispute_not_held(tp, client_id, transaction_id) ==
  LET k == <<client_id, transaction_id>>
  IN IF k \notin DOMAIN tp.deposit_transactions
     THEN [tp |-> tp,
           result |-> "ReferencedTransactionNotFoundForSpecifiedClient"]
     ELSE LET disputed_amount == tp.deposit_transactions[k]
              acc == tp.accounts[client_id]
          IN [tp |-> [accounts |-> insert(tp.accounts, client_id,
                         [acc EXCEPT
                            !.available_amount = @ - disputed_amount]),
                      deposit_transactions |->
                         remove(tp.deposit_transactions, k),
                      dispute_transactions |->
                         insert(tp.dispute_transactions, k, disputed_amount)],
              result |-> "Ok"]

\* Mutant of dispute: a transaction that is not a pending deposit is looked
\* up among the disputed ones and held again.
dispute_twice(tp, client_id, transaction_id) ==
  LET k == <<client_id, transaction_id>>
      found == IF k \in DOMAIN tp.deposit_transactions
               THEN tp.deposit_transactions
               ELSE tp.dispute_transactions
  IN IF k \notin DOMAIN found
     THEN [tp |-> tp,
           result |-> "ReferencedTransactionNotFoundForSpecifiedClient"]
     ELSE LET disputed_amount == found[k]
              acc == tp.accounts[client_id]
          IN [tp |-> [accounts |-> insert(tp.accounts, client_id,
                         [acc EXCEPT
                            !.available_amount = @ - disputed_amount,
                            !.held_amount = @ + disputed_amount]),
                      deposit_transactions |->
                         remove(tp.deposit_transactions, k),
                      dispute_transactions |->
                         insert(tp.dispute_transactions, k, disputed_amount)],
              result |-> "Ok"]

\* Mutant of dispute: a deposit can only be disputed while its amount is
\* still available.
dispute_requires_funds(tp, client_id, transaction_id) ==
  LET k == <<client_id, transaction_id>>
  IN IF k \notin DOMAIN tp.deposit_transactions
        \/ tp.accounts[client_id].available_amount < tp.deposit_transactions[k]
     THEN [tp |-> tp,
           result |-> "ReferencedTransactionNotFoundForSpecifiedClient"]
     ELSE LET disputed_amount == tp.deposit_transactions[k]
              acc == tp.accounts[client_id]
          IN [tp |-> [accounts |-> insert(tp.accounts, client_id,
                         [acc EXCEPT
                            !.available_amount = @ - disputed_amount,
                            !.held_amount = @ + disputed_amount]),
                      deposit_transactions |->
                         remove(tp.deposit_transactions, k),
                      dispute_transactions |->
                         insert(tp.dispute_transactions, k, disputed_amount)],
              result |-> "Ok"]

\* Mutant of dispute: the deposit is looked up by its transaction id alone,
\* whichever client made it, and held on the account of the client who did.
dispute_by_tx(tp, client_id, transaction_id) ==
  LET found == {j \in DOMAIN tp.deposit_transactions : j[2] = transaction_id}
  IN IF found = {}
     THEN [tp |-> tp,
           result |-> "ReferencedTransactionNotFoundForSpecifiedClient"]
     ELSE LET k == IF <<client_id, transaction_id>> \in found
                   THEN <<client_id, transaction_id>>
                   ELSE CHOOSE j \in found : TRUE
              disputed_amount == tp.deposit_transactions[k]
              acc == tp.accounts[k[1]]
          IN [tp |-> [accounts |-> insert(tp.accounts, k[1],
                         [acc EXCEPT
                            !.available_amount = @ - disputed_amount,
                            !.held_amount = @ + disputed_amount]),
                      deposit_transactions |->
                         remove(tp.deposit_transactions, k),
                      dispute_transactions |->
                         insert(tp.dispute_transactions, k, disputed_amount)],
              result |-> "Ok"]

\* Mutant of dispute: the amount is held but the deposit is not entered in
\* dispute_transactions.
dispute_unindexed(tp, client_id, transaction_id) ==
  LET k == <<client_id, transaction_id>>
  IN IF k \notin DOMAIN tp.deposit_transactions
     THEN [tp |-> tp,
           result |-> "ReferencedTransactionNotFoundForSpecifiedClient"]
     ELSE LET disputed_amount == tp.deposit_transactions[k]
              acc == tp.accounts[client_id]
          IN [tp |-> [tp EXCEPT
                        !.accounts = insert(tp.accounts, client_id,
                           [acc EXCEPT
                              !.available_amount = @ - disputed_amount,
                              !.held_amount = @ + disputed_amount]),
                        !.deposit_transactions = remove(@, k)],
              result |-> "Ok"]

\* Mutant of dispute: the deposit stays in deposit_transactions when it is
\* entered in dispute_transactions.
dispute_keeps_pending(tp, client_id, transaction_id) ==
  LET k == <<client_id, transaction_id>>
  IN IF k \notin DOMAIN tp.deposit_transactions
     THEN [tp |-> tp,
           result |-> "ReferencedTransactionNotFoundForSpecifiedClient"]
     ELSE LET disputed_amount == tp.deposit_transactions[k]
              acc == tp.accounts[client_id]
          IN [tp |-> [tp EXCEPT
                        !.accounts = insert(tp.accounts, client_id,
                           [acc EXCEPT
                              !.available_amount = @ - disputed_amount,
                              !.held_amount = @ + disputed_amount]),
                        !.dispute_transactions =
                           insert(@, k, disputed_amount)],
              result |-> "Ok"]

\* TransactionProcessor::dispute. The account lookup is unwrapped in the
\* code; a missing account is a panic, modelled as the result "panic".
dispute(tp, client_id, transaction_id) ==
  LET k == <<client_id, transaction_id>>
  IN IF k \notin DOMAIN tp.deposit_transactions
     THEN [tp |-> tp,
           result |-> "ReferencedTransactionNotFoundForSpecifiedClient"]
     ELSE LET disputed_amount == tp.deposit_transactions[k]
          IN IF client_id \notin DOMAIN tp.accounts
             THEN [tp |-> [tp EXCEPT !.deposit_transactions = remove(@, k)],
                   result |-> "panic"]
             ELSE LET acc == tp.accounts[client_id]
                  IN [tp |-> [accounts |-> insert(tp.accounts, client_id,
                                 [acc EXCEPT
                                    !.available_amount = @ - disputed_amount,
                                    !.held_amount = @ + disputed_amount]),
                              deposit_transactions |->
                                 remove(tp.deposit_transactions, k),
                              dispute_transactions |->
                                 insert(tp.dispute_transactions, k,
                                        disputed_amount)],
                      result |-> "Ok"]

\* TransactionProcessor::resolve. The body is `Ok(())`: no field is read or
\* written, and TransactionResolveError has no variant.
resolve(tp, client_id, transaction_id) ==
  [tp |-> tp, result |-> "Ok"]

\* TransactionProcessor::chargeback. The body is `Ok(())`: no field is read
\* or written, and TransactionChargebackError has no variant.
chargeback(tp, client_id, transaction_id) ==
  [tp |-> tp, result |-> "Ok"]

\* The match of main's loop: the operation called for a transaction kind.
Apply(op, tp, client_id, transaction_id, amount) ==
  CASE op = "deposit" -> deposit(tp, client_id, transaction_id, amount)
    [] op = "withdraw" -> withdraw(tp, client_id, transaction_id, amount)
    [] op = "dispute" -> dispute(tp, client_id, transaction_id)
    [] op = "resolve" -> resolve(tp, client_id, transaction_id)
    [] op = "chargeback" -> chargeback(tp, client_id, transaction_id)

\* ---------------------------------------------------------------- input
\* A row of the input as csv_input sees it: the type column, the client and
\* tx columns and the amount column, which is absent (<<"none", 0>>), a
\* string that FractionalAmount's parser rejects (<<"malformed", 0>>), or a
\* string that parses to amount a (<<"some", a>>). "bogus" is a type column
\* serde rejects.
TransactionTypes == {"deposit", "withdrawal", "dispute", "resolve", "chargeback"}

RawRecords ==
  [transaction_type : TransactionTypes \cup {"bogus"},
   client_id : ClientIds,
   transaction_id : TransactionIds,
   amount : {<<"none", 0>>, <<"malformed", 0>>}
              \cup {<<"some", a>> : a \in Amounts}]

\* An Err(CSVInputParserError) item.
InputErr(e) == [ok |-> FALSE, error |-> e]

\* The amount column of a deposit or withdrawal row: ok_or(missing) and then
\* try_into.
parse_amount(raw, missing) ==
  IF raw.amount[1] = "none" THEN InputErr(missing)
  ELSE IF raw.amount[1] = "malformed" THEN InputErr("AmountParseError")
  ELSE [ok |-> TRUE, amount |-> raw.amount[2]]

\* CSVInputParser::parse_raw_record
parse_raw_record(raw) ==
  LET item(kind, amount) ==
        [ok |-> TRUE, client_id |-> raw.client_id,
         transaction_id |-> raw.transaction_id,
         transaction |-> kind, amount |-> amount]
      with_amount(kind, missing) ==
        LET a == parse_amount(raw, missing)
        IN IF a.ok THEN item(kind, a.amount) ELSE a
      without_amount(kind, present) ==
        IF raw.amount[1] # "none" THEN InputErr(present) ELSE item(kind, 0)
  IN CASE raw.transaction_type = "bogus" -> InputErr("Csv")
       [] raw.transaction_type = "deposit" ->
            with_amount("deposit", "DepositMustSpecifyAmount")
       [] raw.transaction_type = "withdrawal" ->
            with_amount("withdraw", "WithdrawalMustSpecifyAmount")
       [] raw.transaction_type = "dispute" ->
            without_amount("dispute", "DisputeCannotSpecifyAmount")
       [] raw.transaction_type = "resolve" ->
            without_amount("resolve", "ResolveCannotSpecifyAmount")
       [] raw.transaction_type = "chargeback" ->
            without_amount("chargeback", "ChargebackCannotSpecifyAmount")

\* ---------------------------------------------------------------- output
Abs(x) == IF x >= 0 THEN x ELSE -x

\* Rust's `/` and `%` on i64: the quotient is truncated towards zero and
\* the remainder has the sign of the dividend.
RustDiv(a, b) == IF a >= 0 THEN a \div b ELSE -((-a) \div b)
RustRem(a, b) == a - b * RustDiv(a, b)

\* One decimal digit as a character.
Digit(d) == <<"0", "1", "2", "3", "4", "5", "6", "7", "8", "9">>[d + 1]

\* `{}` of a non-negative integer: its decimal digits, no padding.
RECURSIVE Digits(_)
Digits(n) ==
  IF n < 10 THEN <<Digit(n)>> ELSE Digits(n \div 10) \o <<Digit(n % 10)>>

\* `{:04}` of a non-negative integer: zero-padded to at least four digits.
Pad4(n) ==
  LET d == Digits(n)
  IN IF Len(d) >= 4 THEN d ELSE [i \in 1..(4 - Len(d)) |-> "0"] \o d

\* Mutant of to_string: the sign is taken from the integer portion, so a
\* negative value above -1.0000 loses it.
to_string_sign_of_quotient(v) ==
  (IF RustDiv(v, 10000) >= 0 THEN <<>> ELSE <<"-">>)
    \o Digits(Abs(RustDiv(v, 10000)))
    \o <<".">>
    \o Pad4(Abs(RustRem(v, 10000)))

\* impl Display for FractionalAmount, as a sequence of characters.
to_string(v) ==
  (IF v >= 0 THEN <<>> ELSE <<"-">>)
    \o Digits(Abs(RustDiv(v, 10000)))
    \o <<".">>
    \o Pad4(Abs(RustRem(v, 10000)))

\* ---------------------------------------------------------------- amounts
\* FractionalAmount(i64), narrowed to AmountBits bits: the least and the
\* greatest value the integer type holds.
AmountMin == -(2 ^ (AmountBits - 1))
AmountMax == 2 ^ (AmountBits - 1) - 1
AmountValues == AmountMin..AmountMax

\* Value(i64, out of range): what the build makes of an arithmetic result.
\* With overflow checks (debug profile) the thread panics, without them
\* (release profile) the result wraps modulo 2^AmountBits.
Wrap(n) == ((n - AmountMin) % (2 ^ AmountBits)) + AmountMin

\* Results of the conversion: Ok(FractionalAmount(value)), Err(error), or a
\* panic of the thread.
ParseOk(n) == [ok |-> TRUE, value |-> n, error |-> "none"]
ParseErr(e) == [ok |-> FALSE, value |-> 0, error |-> e]

\* char::to_digit(10): the digit's value, or -1 for None.
DigitChars == {"0", "1", "2", "3", "4", "5", "6", "7", "8", "9"}
to_digit(ch) ==
  IF ch \in DigitChars
  THEN CHOOSE d \in 0..9 : Digit(d) = ch
  ELSE -1

\* str::parse::<i64> on the digits after the sign, most significant first:
\* acc * 10 + digit, checked against the type's range (the sign is applied
\* digit by digit, so the least value parses too).
RECURSIVE from_str_digits(_, _, _)
from_str_digits(chars, sign, acc) ==
  IF chars = <<>> THEN ParseOk(acc)
  ELSE LET d == to_digit(Head(chars))
           next == acc * 10 + sign * d
       IN IF d < 0 THEN ParseErr("DecimalPortionParseIntError")
          ELSE IF next < AmountMin \/ next > AmountMax
          THEN ParseErr("DecimalPortionParseIntError")
          ELSE from_str_digits(Tail(chars), sign, next)

\* str::parse::<i64>: an optional '+' or '-', then at least one digit.
from_str(src) ==
  IF src = <<>> THEN ParseErr("DecimalPortionParseIntError")
  ELSE IF Head(src) \in {"+", "-"}
  THEN IF Tail(src) = <<>> THEN ParseErr("DecimalPortionParseIntError")
       ELSE from_str_digits(Tail(src), IF Head(src) = "-" THEN -1 ELSE 1, 0)
  ELSE from_str_digits(src, 1, 0)

\* splitn(2, "."): the part before the first '.', and the part after it
\* (has_rest is FALSE when there is no '.').
splitn(src) ==
  LET dots == {i \in DOMAIN src : src[i] = "."}
  IN IF dots = {}
     THEN [first |-> src, has_rest |-> FALSE, rest |-> <<>>]
     ELSE LET i == CHOOSE j \in dots : \A k \in dots : j <= k
          IN [first |-> SubSeq(src, 1, i - 1), has_rest |-> TRUE,
              rest |-> SubSeq(src, i + 1, Len(src))]

\* The loop over fractional_portion.chars(): the first four digits are
\* added at magnitudes 1000, 100, 10 and 1; the loop goes on to the end of
\* the string and fails on the first character that is not a digit.
RECURSIVE fractional_portion_amount(_, _, _)
fractional_portion_amount(chars, magnitude, acc) ==
  IF chars = <<>> THEN ParseOk(acc)
  ELSE LET digit == to_digit(Head(chars))
       IN IF digit < 0 THEN ParseErr("NonDigitInFractionalPortion")
          ELSE IF magnitude > 1
          THEN fractional_portion_amount(Tail(chars), magnitude \div 10,
                                         acc + digit * magnitude)
          ELSE IF magnitude = 1
          THEN fractional_portion_amount(Tail(chars), 0, acc + digit)
          ELSE fractional_portion_amount(Tail(chars), magnitude, acc)

\* impl TryInto<FractionalAmount> for &str. overflow_checks is the build's
\* setting for `decimal_portion_amount * 10_000 + fractional_portion_amount`.
try_into(src, overflow_checks) ==
  LET splitter == splitn(src)
      decimal_portion_amount == from_str(splitter.first)
      fraction == IF splitter.has_rest
                  THEN fractional_portion_amount(splitter.rest, 1000, 0)
                  ELSE ParseOk(0)
  IN IF ~decimal_portion_amount.ok THEN decimal_portion_amount
     ELSE IF ~fraction.ok THEN fraction
     ELSE LET product == decimal_portion_amount.value * 10000
              sum == Wrap(product) + fraction.value
          IN IF product \in AmountValues /\ sum \in AmountValues
             THEN ParseOk(sum)
             ELSE IF overflow_checks THEN ParseErr("panic")
             ELSE ParseOk(Wrap(sum))

\* The strings handed to the parser: an integer portion of at most MaxIntLen
\* characters, alone or followed by '.' and a fractional portion of at most
\* MaxFracLen characters, and the literals of the doc tests.
IntChars == {"0", "1", "-", "a"}
FracChars == {"0", "9", "a"}
SeqsUpTo(chars, n) == UNION {[1..k -> chars] : k \in 0..n}
DocStrings ==
  {<<"1", ".", "5", "0", "0", "0", "0", "0", "0", "0", "0", "0", "0", "0", "1">>,
   <<"0", ".", "2", "5", "0", "0", "9">>,
   <<"0", ".", "2", "5">>,
   <<"1", ".", "5">>}
IntPortions == SeqsUpTo(IntChars, MaxIntLen)
FracPortions == SeqsUpTo(FracChars, MaxFracLen)

\* Mutant of get_total: the held amount is left out of the total.
get_total_available(account) == account.available_amount

\* Account::get_total
get_total(account) == account.available_amount + account.held_amount

\* The AccountOutputCSVRecord main serializes for one account.
AccountOutputCSVRecord(client_id, account) ==
  [client |-> client_id,
   available |-> to_string(account.available_amount),
   held |-> to_string(account.held_amount),
   total |-> to_string(get_total(account)),
   locked |-> account.frozen]

\* The orders in which a HashMap with key set D can be iterated.
IterationOrders(D) ==
  {o \in [1..Cardinality(D) -> D] : \A i, j \in DOMAIN o : o[i] = o[j] => i = j}

\* ---------------------------------------------------------------- history
\* The ledger of the calls made: for every key of an accepted deposit its
\* amount and where it stands in the dispute cycle the field docs describe
\* (pending; disputed once a dispute of it was accepted; pending again once
\* it is resolved; charged back for good), whether the accepted deposits
\* used pairwise distinct transaction ids, whether they used pairwise
\* distinct (client, tx) keys, whether every call so far was an accepted
\* deposit, whether no chargeback was called, and for every client the sum
\* of its accepted deposits minus the sum of its accepted withdrawals.
HistInit ==
  [ledger |-> EmptyMap, distinct |-> TRUE, only_deposits |-> TRUE,
   distinct_keys |-> TRUE, no_chargeback |-> TRUE,
   net |-> [c \in ClientIds |-> 0]]

HistStep(h, op, client_id, transaction_id, amount, result) ==
  LET k == <<client_id, transaction_id>>
      known == k \in DOMAIN h.ledger
      staged(st) == known /\ h.ledger[k].status = st
      moved(st) == [h.ledger EXCEPT ![k].status = st]
  IN [ledger |->
        IF op = "deposit"
        THEN IF result = "Ok"
             THEN insert(h.ledger, k,
                         [amount |-> amount, status |-> "pending"])
             ELSE h.ledger
        ELSE IF op = "dispute"
        THEN IF result = "Ok" /\ known THEN moved("disputed") ELSE h.ledger
        ELSE IF op = "resolve" /\ staged("disputed") THEN moved("pending")
        ELSE IF op = "chargeback" /\ staged("disputed")
        THEN moved("chargedback")
        ELSE h.ledger,
      distinct |->
        /\ h.distinct
        /\ (op = "deposit" /\ result = "Ok") =>
              \A j \in DOMAIN h.ledger : j[2] # transaction_id,
      only_deposits |->
        h.only_deposits /\ op = "deposit" /\ result = "Ok",
      distinct_keys |->
        h.distinct_keys /\ ~(op = "deposit" /\ result = "Ok" /\ known),
      no_chargeback |->
        h.no_chargeback /\ op # "chargeback",
      net |->
        IF op = "deposit" /\ result = "Ok"
        THEN [h.net EXCEPT ![client_id] = @ + amount]
        ELSE IF op = "withdraw" /\ result = "Ok"
        THEN [h.net EXCEPT ![client_id] = @ - amount]
        ELSE h.net]

\* ---------------------------------------------------------------- actions
\* No amount is under conversion.
NoAmount ==
  [stage |-> "none", text |-> <<>>, value |-> 0, out |-> ParseErr("none")]

\* One call of the driver's loop: the fields take the values the operation
\* returns, and the call is recorded in last / pre and in the history.
Call(op, client_id, transaction_id, amount, r) ==
  /\ accounts' = r.tp.accounts
  /\ deposit_transactions' = r.tp.deposit_transactions
  /\ dispute_transactions' = r.tp.dispute_transactions
  /\ last' = [op |-> op, client |-> client_id, tx |-> transaction_id,
              amount |-> amount, result |-> r.result]
  /\ pre' = Processor
  /\ nops' = nops + 1
  /\ hist' = HistStep(hist, op, client_id, transaction_id, amount, r.result)
  /\ UNCHANGED conv

Init ==
  /\ accounts = new.accounts
  /\ deposit_transactions = new.deposit_transactions
  /\ dispute_transactions = new.dispute_transactions
  /\ last = [op |-> "new", client |-> 0, tx |-> 0, amount |-> 0,
             result |-> "Ok"]
  /\ pre = new
  /\ nops = 0
  /\ phase = "running"
  /\ output = <<>>
  /\ hist = HistInit
  /\ clean = new
  /\ conv = NoAmount

Deposit ==
  /\ nops < MaxOps
  /\ \E c \in ClientIds, t \in TransactionIds, a \in Amounts :
       Call("deposit", c, t, a, deposit(Processor, c, t, a))

Withdraw ==
  /\ nops < MaxOps
  /\ \E c \in ClientIds, t \in TransactionIds, a \in Amounts :
       Call("withdraw", c, t, a, withdraw(Processor, c, t, a))

Dispute ==
  /\ nops < MaxOps
  /\ \E c \in ClientIds, t \in TransactionIds :
       Call("dispute", c, t, 0, dispute(Processor, c, t))

Resolve ==
  /\ nops < MaxOps
  /\ \E c \in ClientIds, t \in TransactionIds :
       Call("resolve", c, t, 0, resolve(Processor, c, t))

Chargeback ==
  /\ nops < MaxOps
  /\ \E c \in ClientIds, t \in TransactionIds :
       Call("chargeback", c, t, 0, chargeback(Processor, c, t))

\* Mutant of InputError: the error is reported like a rejected transaction
\* and the loop goes on with the next item.
InputError_reported ==
  /\ phase = "running"
  /\ \E e \in {"Csv", "AmountParseError"} :
       last' = [op |-> "input_error", client |-> 0, tx |-> 0, amount |-> 0,
                result |-> e]
  /\ pre' = Processor
  /\ UNCHANGED <<accounts, deposit_transactions, dispute_transactions,
                 nops, phase, output, hist, clean, conv>>

\* The errors the iterator can yield: read_record fails ("Csv"), or
\* parse_raw_record rejects the row it read.
InputErrors ==
  {"Csv"} \cup {parse_raw_record(raw).error :
                  raw \in {x \in RawRecords : ~parse_raw_record(x).ok}}

\* The iterator yields Some(Err(..)); `tx_result?` returns the error from
\* main.
InputError ==
  /\ phase = "running"
  /\ \E e \in InputErrors :
       last' = [op |-> "input_error", client |-> 0, tx |-> 0, amount |-> 0,
                result |-> e]
  /\ pre' = Processor
  /\ phase' = "aborted"
  /\ UNCHANGED <<accounts, deposit_transactions, dispute_transactions,
                 nops, output, hist, clean, conv>>

\* The iterator yields None: the processor is turned into its account table
\* and one record per entry is serialized, in the map's iteration order.
Finish ==
  /\ phase = "running"
  /\ \E o \in IterationOrders(DOMAIN accounts) :
       output' = [i \in DOMAIN o |-> AccountOutputCSVRecord(o[i], accounts[o[i]])]
  /\ last' = [op |-> "end_of_input", client |-> 0, tx |-> 0, amount |-> 0,
              result |-> "Ok"]
  /\ pre' = Processor
  /\ phase' = "done"
  /\ UNCHANGED <<accounts, deposit_transactions, dispute_transactions,
                 nops, hist, clean, conv>>

\* The variables of main that a call of the processor leaves alone.
Streaming == UNCHANGED <<phase, output, clean>>

\* The processor under every sequence of calls (the stream never ends).
Next ==
  \/ Deposit /\ Streaming
  \/ Withdraw /\ Streaming
  \/ Dispute /\ Streaming
  \/ Resolve /\ Streaming
  \/ Chargeback /\ Streaming

Spec == Init /\ [][Next]_vars

\* One iteration of main's loop over an Ok item, in a stream of at most
\* MaxRecords such items: the call is made, and `clean` is fed the call when
\* it returned Ok.
Record(call) ==
  /\ phase = "running"
  /\ nops < MaxRecords
  /\ call
  /\ clean' = IF last'.result = "Ok"
              THEN Apply(last'.op, clean, last'.client, last'.tx,
                         last'.amount).tp
              ELSE clean
  /\ UNCHANGED <<phase, output>>

\* The whole run of main: the stream's items are processed until it ends
\* or yields an error.
DriverNext ==
  \/ Record(Deposit)
  \/ Record(Withdraw)
  \/ Record(Dispute)
  \/ Record(Resolve)
  \/ Record(Chargeback)
  \/ InputError
  \/ Finish

DriverSpec == Init /\ [][DriverNext]_vars

\* The conversions of FractionalAmount on their own: a string is parsed, or
\* a value is formatted and the rendering is parsed back. The processor is
\* not involved.
AmountInit ==
  /\ accounts = new.accounts
  /\ deposit_transactions = new.deposit_transactions
  /\ dispute_transactions = new.dispute_transactions
  /\ last = [op |-> "new", client |-> 0, tx |-> 0, amount |-> 0,
             result |-> "Ok"]
  /\ pre = new
  /\ nops = 0
  /\ phase = "running"
  /\ output = <<>>
  /\ hist = HistInit
  /\ clean = new
  /\ \/ \E i \in IntPortions :
          conv = [NoAmount EXCEPT !.stage = "text", !.text = i]
     \/ \E i \in IntPortions, f \in FracPortions :
          conv = [NoAmount EXCEPT !.stage = "text",
                                  !.text = i \o <<".">> \o f]
     \/ \E src \in DocStrings :
          conv = [NoAmount EXCEPT !.stage = "text", !.text = src]
     \/ \E v \in AmountValues :
          conv = [NoAmount EXCEPT !.stage = "value", !.value = v]

Idle ==
  UNCHANGED <<accounts, deposit_transactions, dispute_transactions, last,
              pre, nops, phase, output, hist, clean>>

\* `src.try_into()` on an input string, or on the rendering of a value.
Parse ==
  /\ conv.stage \in {"text", "formatted"}
  /\ \E overflow_checks \in BOOLEAN :
       conv' = [conv EXCEPT
                 !.stage = IF conv.stage = "text" THEN "parsed" ELSE "reparsed",
                 !.out = try_into(conv.text, overflow_checks)]
  /\ Idle

\* `value.to_string()`
Format ==
  /\ conv.stage = "value"
  /\ conv' = [conv EXCEPT !.stage = "formatted", !.text = to_string(conv.value)]
  /\ Idle

AmountNext ==
  \/ Parse
  \/ Format

AmountSpec == AmountInit /\ [][AmountNext]_vars

\* ---------------------------------------------------------------- helpers
\* The key of the last call.
LastKey == <<last.client, last.tx>>

\* The account of client c in table accs, or the default account when the
\* table has none (used to compare balances across a call that creates it).
AccountOr(accs, c) ==
  IF c \in DOMAIN accs THEN accs[c] ELSE AccountDefault

\* Client c's row after / before the last call.
LastAccount == accounts[last.client]
PreAccount == AccountOr(pre.accounts, last.client)

\* ---------------------------------------------------------------- claims

\* C1: error atomicity. Whenever the last call returned an error, the
\* account table and both indices are exactly what they were before the call.
C1_ErrorAtomicity ==
  last.result # "Ok" => Processor = pre

\* C2: resolve of a key that is in the Disputed Index succeeds, removes the
\* key from the Disputed Index, moves the amount from held back to available
\* and re-inserts the key with the same amount into the Pending Deposit Index.
C2_ResolveReleasesHeld ==
  (last.op = "resolve" /\ LastKey \in DOMAIN pre.dispute_transactions) =>
    LET amt == pre.dispute_transactions[LastKey]
    IN /\ last.result = "Ok"
       /\ LastKey \notin DOMAIN dispute_transactions
       /\ LastKey \in DOMAIN deposit_transactions
       /\ deposit_transactions[LastKey] = amt
       /\ LastAccount.held_amount = PreAccount.held_amount - amt
       /\ LastAccount.available_amount = PreAccount.available_amount + amt

\* C3: chargeback of a key that is in the Disputed Index succeeds, removes
\* the key from the Disputed Index without putting it into the Pending
\* Deposit Index, takes the amount out of held, leaves available alone and
\* freezes the account.
C3_ChargebackRemovesHeldAndFreezes ==
  (last.op = "chargeback" /\ LastKey \in DOMAIN pre.dispute_transactions) =>
    LET amt == pre.dispute_transactions[LastKey]
    IN /\ last.result = "Ok"
       /\ LastKey \notin DOMAIN dispute_transactions
       /\ deposit_transactions = pre.deposit_transactions
       /\ LastAccount.held_amount = PreAccount.held_amount - amt
       /\ LastAccount.available_amount = PreAccount.available_amount
       /\ LastAccount.frozen

\* C4: resolve and chargeback of a key that is not in the Disputed Index
\* fail with DisputeNotFound.
C4_NoDisputeIsRejected ==
  (/\ last.op \in {"resolve", "chargeback"}
   /\ LastKey \notin DOMAIN pre.dispute_transactions)
    => last.result = "DisputeNotFound"

\* C5: dispute followed at once by resolve is neutral. From every reachable
\* state and for every pending deposit, the two calls in a row give back the
\* account table and both indices of the state they started from.
C5_DisputeResolveNeutral ==
  \A k \in DOMAIN deposit_transactions :
    LET d == dispute(Processor, k[1], k[2])
        r == resolve(d.tp, k[1], k[2])
    IN /\ d.result = "Ok"
       /\ r.result = "Ok"
       /\ r.tp = Processor

\* C6: after the chargeback of a disputed deposit the account is frozen, the
\* key is in neither index, a further resolve or chargeback of it fails with
\* DisputeNotFound and a further dispute fails with TransactionNotFound.
C6_ChargebackIsFinal ==
  (last.op = "chargeback" /\ LastKey \in DOMAIN pre.dispute_transactions
     /\ LastKey \notin DOMAIN pre.deposit_transactions) =>
    /\ LastAccount.frozen
    /\ LastKey \notin DOMAIN deposit_transactions
    /\ LastKey \notin DOMAIN dispute_transactions
    /\ resolve(Processor, last.client, last.tx).result = "DisputeNotFound"
    /\ chargeback(Processor, last.client, last.tx).result = "DisputeNotFound"
    /\ dispute(Processor, last.client, last.tx).result =
         "ReferencedTransactionNotFoundForSpecifiedClient"

\* C7: dispute of a key that is in the Pending Deposit Index succeeds,
\* removes the key from that index, moves the recorded amount from available
\* to held (their sum is unchanged), records the key with that amount in the
\* Disputed Index and leaves frozen unchanged.
C7_DisputeHoldsDeposit ==
  (last.op = "dispute" /\ LastKey \in DOMAIN pre.deposit_transactions) =>
    LET amt == pre.deposit_transactions[LastKey]
    IN /\ last.result = "Ok"
       /\ LastKey \notin DOMAIN deposit_transactions
       /\ LastKey \in DOMAIN dispute_transactions
       /\ dispute_transactions[LastKey] = amt
       /\ last.client \in DOMAIN pre.accounts
       /\ LastAccount.available_amount = PreAccount.available_amount - amt
       /\ LastAccount.held_amount = PreAccount.held_amount + amt
       /\ LastAccount.available_amount + LastAccount.held_amount
            = PreAccount.available_amount + PreAccount.held_amount
       /\ LastAccount.frozen = PreAccount.frozen

\* C7 witness: a dispute of a pending deposit of a positive amount was made.
C7_Witness ==
  /\ last.op = "dispute"
  /\ LastKey \in DOMAIN pre.deposit_transactions
  /\ pre.deposit_transactions[LastKey] > 0
  /\ last.result = "Ok"

\* C8: dispute of a key that is not in the Pending Deposit Index fails with
\* TransactionNotFound and leaves every account (and the set of accounts)
\* unchanged.
C8_DisputeUnknownIsRejected ==
  (last.op = "dispute" /\ LastKey \notin DOMAIN pre.deposit_transactions) =>
    /\ last.result = "ReferencedTransactionNotFoundForSpecifiedClient"
    /\ accounts = pre.accounts

\* C8 witness: a second dispute of a deposit that is already under dispute
\* (a positive amount is held for it) was rejected.
C8_Witness ==
  /\ last.op = "dispute"
  /\ LastKey \notin DOMAIN pre.deposit_transactions
  /\ LastKey \in DOMAIN pre.dispute_transactions
  /\ pre.dispute_transactions[LastKey] > 0
  /\ last.result = "ReferencedTransactionNotFoundForSpecifiedClient"

\* C9: deposit of an amount >= 0 succeeds, creates the account when absent,
\* adds the amount to available, leaves held and frozen alone, records the
\* key with the amount in the Pending Deposit Index and changes neither the
\* Disputed Index nor any other client's account.
C9_DepositCredits ==
  (last.op = "deposit" /\ last.amount >= 0) =>
    /\ last.result = "Ok"
    /\ DOMAIN accounts = (DOMAIN pre.accounts) \cup {last.client}
    /\ LastAccount.available_amount = PreAccount.available_amount + last.amount
    /\ LastAccount.held_amount = PreAccount.held_amount
    /\ LastAccount.frozen = PreAccount.frozen
    /\ \A c \in (DOMAIN accounts) \ {last.client} :
         accounts[c] = pre.accounts[c]
    /\ DOMAIN deposit_transactions =
         (DOMAIN pre.deposit_transactions) \cup {LastKey}
    /\ deposit_transactions[LastKey] = last.amount
    /\ \A k \in (DOMAIN deposit_transactions) \ {LastKey} :
         deposit_transactions[k] = pre.deposit_transactions[k]
    /\ dispute_transactions = pre.dispute_transactions

\* C9 witness: a positive deposit for a client that had no account, made
\* while another client already had one.
C9_Witness ==
  /\ last.op = "deposit"
  /\ last.amount > 0
  /\ last.result = "Ok"
  /\ last.client \notin DOMAIN pre.accounts
  /\ pre.accounts # EmptyMap

\* C10: deposit and withdraw of an amount < 0 fail with their NegativeAmount
\* error before anything else happens: no account is created, no balance
\* changes and no index entry is added.
C10_NegativeAmountIsRejected ==
  /\ (last.op = "deposit" /\ last.amount < 0) =>
       /\ last.result = "CannotDepositANegativeAmount"
       /\ Processor = pre
  /\ (last.op = "withdraw" /\ last.amount < 0) =>
       /\ last.result = "CannotWithdrawANegativeAmount"
       /\ Processor = pre

\* C10 witness: a negative deposit for a client with no account was rejected.
C10_Witness ==
  /\ last.op = "deposit"
  /\ last.amount < 0
  /\ last.client \notin DOMAIN pre.accounts
  /\ last.result = "CannotDepositANegativeAmount"

\* ---------------------------------------------------------------- history helpers
\* The five calls of the processor, as recorded in last.op.
CallOps == {"deposit", "withdraw", "dispute", "resolve", "chargeback"}

\* The clients that made at least one accepted deposit.
Depositors == {k[1] : k \in DOMAIN hist.ledger}

\* The sum of the amounts the ledger holds under the given keys.
RECURSIVE SumAmounts(_, _)
SumAmounts(ledger, keys) ==
  IF keys = {} THEN 0
  ELSE LET k == CHOOSE x \in keys : TRUE
       IN ledger[k].amount + SumAmounts(ledger, keys \ {k})

\* The sum of the amounts of client c's accepted deposits.
Deposited(c) ==
  SumAmounts(hist.ledger, {k \in DOMAIN hist.ledger : k[1] = c})

\* The part of a processor that belongs to client c: its account and the
\* index entries keyed by it (what a shard for c alone would hold).
Project(tp, c) ==
  LET mine(m) == [k \in {j \in DOMAIN m : j[1] = c} |-> m[k]]
  IN [accounts |-> [x \in (DOMAIN tp.accounts) \cap {c} |-> tp.accounts[x]],
      deposit_transactions |-> mine(tp.deposit_transactions),
      dispute_transactions |-> mine(tp.dispute_transactions)]

\* The records main writes for an account table, as a set.
OutputOf(accs) == {AccountOutputCSVRecord(c, accs[c]) : c \in DOMAIN accs}

\* The doc tests of the module: deposit 1.5 and withdraw 0.25 for client 1,
\* then dispute the deposit.
DocDeposited == deposit(new, 1, 1, 15000).tp
DocWithdrawn == withdraw(DocDeposited, 1, 2, 2500).tp
DocDisputed == dispute(DocWithdrawn, 1, 1).tp

\* ---------------------------------------------------------------- claims (continued)

\* C11: withdraw of an amount between 0 and available succeeds, takes
\* exactly the amount from available and leaves held, frozen and both
\* indices as they were (the withdrawal's id enters neither index);
\* available is >= 0 after every successful withdrawal; deposit 1.5 then
\* withdraw 0.25 gives available 1.2500, held 0.0000, not frozen.
C11_WithdrawDebits ==
  /\ (/\ last.op = "withdraw"
      /\ 0 <= last.amount
      /\ last.amount <= PreAccount.available_amount) =>
       /\ last.result = "Ok"
       /\ LastAccount.available_amount
            = PreAccount.available_amount - last.amount
       /\ LastAccount.held_amount = PreAccount.held_amount
       /\ LastAccount.frozen = PreAccount.frozen
       /\ deposit_transactions = pre.deposit_transactions
       /\ dispute_transactions = pre.dispute_transactions
  /\ (last.op = "withdraw" /\ last.result = "Ok") =>
       LastAccount.available_amount >= 0
  /\ to_string(DocWithdrawn.accounts[1].available_amount)
       = <<"1", ".", "2", "5", "0", "0">>
  /\ to_string(DocWithdrawn.accounts[1].held_amount)
       = <<"0", ".", "0", "0", "0", "0">>
  /\ ~DocWithdrawn.accounts[1].frozen

\* C11 witness: a positive withdrawal succeeded under a transaction id that
\* is in neither index, while a deposit is pending.
C11_Witness ==
  /\ last.op = "withdraw"
  /\ last.result = "Ok"
  /\ last.amount > 0
  /\ LastKey \notin (DOMAIN deposit_transactions)
                      \cup (DOMAIN dispute_transactions)
  /\ deposit_transactions # EmptyMap

\* C12 (as stated): withdraw of more than available fails with
\* InsufficientFunds and leaves available, held and frozen unchanged; and
\* every withdrawal by a client with no prior deposit fails.
C12_EveryWithdrawalWithoutDepositFails ==
  /\ (last.op = "withdraw" /\ last.amount > PreAccount.available_amount) =>
       /\ last.result = "InsufficientAmountAvailableForWithdrawal"
       /\ LastAccount = PreAccount
  /\ (last.op = "withdraw" /\ last.client \notin Depositors) =>
       last.result # "Ok"

\* C12 (amended): withdraw of a non-negative amount greater than available
\* fails with InsufficientFunds, withdraw of a negative amount fails with
\* NegativeAmount, and both leave available, held and frozen unchanged; a
\* client with no prior deposit has available 0, so each of its withdrawals
\* of an amount other than 0 fails, and its withdrawal of 0 succeeds.
C12_OverdraftIsRejected ==
  /\ (/\ last.op = "withdraw"
      /\ last.amount >= 0
      /\ last.amount > PreAccount.available_amount) =>
       /\ last.result = "InsufficientAmountAvailableForWithdrawal"
       /\ LastAccount = PreAccount
  /\ (last.op = "withdraw" /\ last.amount < 0) =>
       /\ last.result = "CannotWithdrawANegativeAmount"
       /\ AccountOr(accounts, last.client) = PreAccount
  /\ (last.op = "withdraw" /\ last.client \notin Depositors) =>
       /\ PreAccount.available_amount = 0
       /\ last.amount > 0 =>
            last.result = "InsufficientAmountAvailableForWithdrawal"
       /\ last.amount < 0 =>
            last.result = "CannotWithdrawANegativeAmount"
       /\ last.amount = 0 => last.result = "Ok"

\* C12 witness: a positive withdrawal by a client with no deposit and no
\* account was rejected, while another client had funds.
C12_Witness ==
  /\ last.op = "withdraw"
  /\ last.amount > 0
  /\ last.client \notin Depositors
  /\ last.client \notin DOMAIN pre.accounts
  /\ last.result = "InsufficientAmountAvailableForWithdrawal"
  /\ \E c \in DOMAIN pre.accounts : pre.accounts[c].available_amount > 0

\* C13: the account table has an account for a client if and only if that
\* client made at least one accepted deposit.
C13_AccountsAreDepositors ==
  DOMAIN accounts = Depositors

\* C14: after only valid deposits with distinct transaction ids, each
\* client's available is the sum of its deposits, held is 0 and the Pending
\* Deposit Index holds exactly the deposits' keys; after any calls with
\* distinct deposit ids the Pending Deposit Index holds exactly the accepted
\* deposits that are neither under dispute nor charged back.
C14_PendingIsUndisputed ==
  /\ (hist.only_deposits /\ hist.distinct) =>
       /\ \A c \in ClientIds :
            /\ AccountOr(accounts, c).available_amount = Deposited(c)
            /\ AccountOr(accounts, c).held_amount = 0
       /\ DOMAIN deposit_transactions = DOMAIN hist.ledger
  /\ hist.distinct =>
       DOMAIN deposit_transactions =
         {k \in DOMAIN hist.ledger : hist.ledger[k].status = "pending"}

\* C15: a dispute of a pending deposit succeeds whatever the available
\* balance is, so available can become negative (deposit 1.5, withdraw 0.25,
\* dispute: available -0.2500, held 1.5000); no other call makes an
\* available balance negative.
C15_DisputeMayOverdraw ==
  /\ (last.op = "dispute" /\ LastKey \in DOMAIN pre.deposit_transactions) =>
       /\ last.result = "Ok"
       /\ LastAccount.available_amount =
            PreAccount.available_amount - pre.deposit_transactions[LastKey]
  /\ (last.op \in CallOps \ {"dispute"}) =>
       \A c \in DOMAIN accounts :
         accounts[c].available_amount < 0 =>
           AccountOr(pre.accounts, c).available_amount < 0
  /\ to_string(DocDisputed.accounts[1].available_amount)
       = <<"-", "0", ".", "2", "5", "0", "0">>
  /\ to_string(DocDisputed.accounts[1].held_amount)
       = <<"1", ".", "5", "0", "0", "0">>

\* C15 witness: a dispute was accepted on an account whose available was
\* not negative and is negative now.
C15_Witness ==
  /\ last.op = "dispute"
  /\ last.result = "Ok"
  /\ PreAccount.available_amount >= 0
  /\ LastAccount.available_amount < 0

\* C16: client independence. A call for client c changes no other client's
\* account or index entries, and it does to c's part of the processor
\* exactly what it does, with the same result, to a processor holding c's
\* part alone (so a shard fed only c's calls stays equal to c's part).
C16_ClientIndependence ==
  (last.op \in CallOps) =>
    /\ \A c \in ClientIds \ {last.client} :
         Project(Processor, c) = Project(pre, c)
    /\ LET r == Apply(last.op, Project(pre, last.client),
                      last.client, last.tx, last.amount)
       IN /\ r.result = last.result
          /\ r.tp = Project(Processor, last.client)

\* C16 witness: a call for one client changed its part of the processor
\* while another client had a pending deposit with the same transaction id.
C16_Witness ==
  /\ last.op \in CallOps
  /\ last.result = "Ok"
  /\ Project(Processor, last.client) # Project(pre, last.client)
  /\ \E c \in ClientIds \ {last.client} :
       <<c, last.tx>> \in DOMAIN pre.deposit_transactions

\* C17: a rejected call, made again at once with the same arguments, is
\* rejected again with the same error.
C17_RejectionRepeats ==
  (last.op \in CallOps /\ last.result # "Ok") =>
    Apply(last.op, Processor, last.client, last.tx, last.amount).result
      = last.result

\* C17 witness: a call was rejected and changed the processor (a withdrawal
\* that left a new account behind).
C17_Witness ==
  /\ last.op \in CallOps
  /\ last.result # "Ok"
  /\ Processor # pre

\* C18: a rejected call does not stop the stream, and the output written at
\* the end is the output of the same input without the rejected records.
C18_RejectedRecordsLeaveNoTrace ==
  /\ (last.op \in CallOps /\ last.result # "Ok") => phase = "running"
  /\ phase = "done" =>
       {output[i] : i \in DOMAIN output} = OutputOf(clean.accounts)

\* C19: an input error is fatal. Every ill-formed row is an error of the
\* parser; when the stream yields an error main is aborted with nothing
\* written to the output, and no step follows.
C19_InputErrorIsFatal ==
  /\ [](/\ \A raw \in RawRecords :
             (\/ raw.transaction_type = "bogus"
              \/ /\ raw.transaction_type \in {"deposit", "withdrawal"}
                 /\ raw.amount[1] # "some"
              \/ /\ raw.transaction_type \in {"dispute", "resolve", "chargeback"}
                 /\ raw.amount[1] # "none")
               <=> ~parse_raw_record(raw).ok
        /\ last.op = "input_error" => (phase = "aborted" /\ output = <<>>)
        /\ phase = "aborted" => last.op = "input_error")
  /\ [][phase # "aborted"]_vars

\* C19 witness: the run was aborted by a malformed amount after a deposit
\* had been applied.
C19_Witness ==
  /\ phase = "aborted"
  /\ last.result = "AmountParseError"
  /\ \E c \in DOMAIN accounts : accounts[c].available_amount > 0
  /\ output = <<>>

\* C20: after the stream ends the output has exactly one record per account
\* of the account table, with the account's available and held, their sum
\* as total and the frozen flag as locked.
C20_OutputIsAccountTable ==
  phase = "done" =>
    /\ Len(output) = Cardinality(DOMAIN accounts)
    /\ \A i \in DOMAIN output : output[i].client \in DOMAIN accounts
    /\ \A c \in DOMAIN accounts :
         /\ Cardinality({i \in DOMAIN output : output[i].client = c}) = 1
         /\ \A i \in DOMAIN output :
              output[i].client = c =>
                /\ output[i].available = to_string(accounts[c].available_amount)
                /\ output[i].held = to_string(accounts[c].held_amount)
                /\ output[i].total =
                     to_string(accounts[c].available_amount
                                 + accounts[c].held_amount)
                /\ output[i].locked = accounts[c].frozen

\* C20 witness: the stream ended and a record with a held amount was
\* written.
C20_Witness ==
  /\ phase = "done"
  /\ \E i \in DOMAIN output :
       /\ accounts[output[i].client].held_amount > 0
       /\ output[i].held # output[i].available

\* ---------------------------------------------------------------- claims (amounts)
\* A string that is a sequence of decimal digits, and the number it writes.
IsDigits(chars) == \A i \in DOMAIN chars : chars[i] \in DigitChars

RECURSIVE DecimalValue(_)
DecimalValue(chars) ==
  IF chars = <<>> THEN 0
  ELSE DecimalValue(SubSeq(chars, 1, Len(chars) - 1)) * 10
         + to_digit(chars[Len(chars)])

\* A string that writes an integer: an optional sign and at least one digit.
IsInteger(chars) ==
  LET digits == IF chars # <<>> /\ Head(chars) \in {"+", "-"}
                THEN Tail(chars) ELSE chars
  IN digits # <<>> /\ IsDigits(digits)

\* The first four characters of a fractional portion, right-padded with
\* zeros.
FirstFour(chars) == [i \in 1..4 |-> IF i <= Len(chars) THEN chars[i] ELSE "0"]

\* The text converted last, as I.F: the part before its first '.' and the
\* part after it.
ConvI == splitn(conv.text).first
ConvF == splitn(conv.text).rest

\* C21: parsing truncates and never rounds. For a string I.F with I a
\* non-negative integer and F a sequence of digits the parsed value is
\* I*10000 plus the first four digits of F (right-padded with zeros); with a
\* non-digit anywhere in F parsing fails with NonDigitInFractionalPortion;
\* with I not an integer it fails with the integer-portion error.
C21_ParseTruncates ==
  (conv.stage = "parsed" /\ splitn(conv.text).has_rest) =>
    /\ (ConvI # <<>> /\ IsDigits(ConvI) /\ IsDigits(ConvF)) =>
         /\ conv.out.ok
         /\ conv.out.value =
              DecimalValue(ConvI) * 10000 + DecimalValue(FirstFour(ConvF))
    /\ (IsInteger(ConvI) /\ ~IsDigits(ConvF)) =>
         /\ ~conv.out.ok
         /\ conv.out.error = "NonDigitInFractionalPortion"
    /\ ~IsInteger(ConvI) =>
         /\ ~conv.out.ok
         /\ conv.out.error = "DecimalPortionParseIntError"

\* C22: to_string renders '-' exactly when v < 0, then |v| div 10000 with no
\* sign, a '.', and |v| mod 10000 as exactly four zero-padded digits.
C22_FormatIsCanonical ==
  conv.stage \in {"formatted", "reparsed"} =>
    LET v == conv.value
        text == conv.text
        unsigned == IF text # <<>> /\ Head(text) = "-" THEN Tail(text) ELSE text
        n == Len(unsigned)
        int == SubSeq(unsigned, 1, n - 5)
        frac == SubSeq(unsigned, n - 3, n)
    IN /\ (text # <<>> /\ Head(text) = "-") <=> v < 0
       /\ n >= 6
       /\ unsigned[n - 4] = "."
       /\ IsDigits(int)
       /\ Len(int) = 1 \/ Head(int) # "0"
       /\ DecimalValue(int) = Abs(v) \div 10000
       /\ IsDigits(frac)
       /\ DecimalValue(frac) = Abs(v) % 10000

\* C22 witness: a negative value below one unit was rendered with its sign,
\* a zero integer portion and a zero-padded fraction (-0.0250).
C22_Witness ==
  /\ conv.stage = "formatted"
  /\ conv.value = -250
  /\ conv.text = <<"-", "0", ".", "0", "2", "5", "0">>

\* C23: parse/format round trip. For every value v, parsing to_string(v)
\* succeeds and yields v.
C23_RoundTrip ==
  conv.stage = "reparsed" => (conv.out.ok /\ conv.out.value = conv.value)

\* ---------------------------------------------------------------- claims (invariants)
\* The sum of the amounts a map stores under the keys of client c.
RECURSIVE SumOver(_, _)
SumOver(m, keys) ==
  IF keys = {} THEN 0
  ELSE LET k == CHOOSE x \in keys : TRUE
       IN m[k] + SumOver(m, keys \ {k})

Disputed(c) ==
  SumOver(dispute_transactions,
          {k \in DOMAIN dispute_transactions : k[1] = c})

\* C24: the processor never panics on a business-rule violation. Every key
\* in either index has an account for its client, so the account lookup
\* dispute unwraps never fails.
C24_IndexedClientsHaveAccounts ==
  /\ \A k \in DOMAIN deposit_transactions \cup DOMAIN dispute_transactions :
       k[1] \in DOMAIN accounts
  /\ last.result # "panic"

\* C24 witness: a dispute found its deposit and unwrapped the account
\* lookup, for a client whose only deposit was of 0.
C24_Witness ==
  /\ last.op = "dispute"
  /\ last.result = "Ok"
  /\ pre.deposit_transactions[LastKey] = 0
  /\ PreAccount = AccountDefault
  /\ LastKey \in DOMAIN dispute_transactions

C26_IndicesAreDisjoint ==
  hist.distinct_keys =>
    /\ DOMAIN deposit_transactions \cap DOMAIN dispute_transactions = {}
    /\ \A k \in DOMAIN deposit_transactions :
         /\ k \in DOMAIN hist.ledger
         /\ deposit_transactions[k] = hist.ledger[k].amount
    /\ \A k \in DOMAIN dispute_transactions :
         /\ k \in DOMAIN hist.ledger
         /\ dispute_transactions[k] = hist.ledger[k].amount

\* C26 witness: one deposit is pending and another, of a different amount,
\* is under dispute.
C26_Witness ==
  /\ hist.distinct_keys
  /\ \E k \in DOMAIN deposit_transactions, j \in DOMAIN dispute_transactions :
       deposit_transactions[k] # dispute_transactions[j]

\* C27: balance accounting. As long as no chargeback was called, every
\* account's total is the sum of the client's accepted deposits minus the sum
\* of its accepted withdrawals; dispute and resolve never change a total, and
\* a rejected operation never changes one.
C27_TotalIsNetDeposits ==
  /\ hist.no_chargeback =>
       \A c \in ClientIds :
         get_total(AccountOr(accounts, c)) = hist.net[c]
  /\ (last.op \in {"dispute", "resolve"} \/ last.result # "Ok") =>
       \A c \in ClientIds :
         get_total(AccountOr(accounts, c)) = get_total(AccountOr(pre.accounts, c))

\* C27 witness: after a deposit and a withdrawal a dispute left the total at
\* deposits minus withdrawals, with the available amount below zero.
C27_Witness ==
  /\ hist.no_chargeback
  /\ last.op = "dispute"
  /\ last.result = "Ok"
  /\ LastAccount.available_amount < 0
  /\ get_total(LastAccount) = hist.net[last.client]
  /\ hist.net[last.client] # SumAmounts(hist.ledger,
                               {k \in DOMAIN hist.ledger : k[1] = last.client})

====
